---- MODULE Spec2Model ----
(***************************************************************************)
(* Egg price tracker: the four HTTP handlers of main.go over the           *)
(* egg_prices and locations tables.                                        *)
(*                                                                         *)
(* Abstractions.  A calendar date is its day number (1..MaxDate), a price  *)
(* is a whole number of cents, a float64 quotient is an exact fraction in  *)
(* lowest terms, and a query-string value is the sequence of its           *)
(* characters.  Every handler issues one SQL statement, which the store    *)
(* executes atomically, so a handler is one action.                        *)
(***************************************************************************)
EXTENDS Integers, Sequences, FiniteSets, TLC

\* ---------------------------------------------------------------- bounds
MaxRows == 3
MaxDate == 2
MaxLimit == 2

\* ------------------------------------------------------------ input sets
\* Location names in ascending name order (the order ORDER BY name yields).
LocationNames == <<"California", "NATIONAL", "Texas">>

Locations == {LocationNames[i] : i \in DOMAIN LocationNames}

NameRank(l) == CHOOSE i \in DOMAIN LocationNames : LocationNames[i] = l

Dates == 1..MaxDate

Prices == {-100, 0, 200, 250}

Sources == {"seed"}

DigitVal == [c \in {"0", "1", "2", "3", "4", "5", "6", "7", "8", "9"} |->
              CASE c = "0" -> 0 [] c = "1" -> 1 [] c = "2" -> 2 [] c = "3" -> 3
                [] c = "4" -> 4 [] c = "5" -> 5 [] c = "6" -> 6 [] c = "7" -> 7
                [] c = "8" -> 8 [] c = "9" -> 9]

DigitChar == <<"0", "1", "2", "3", "4", "5", "6", "7", "8", "9">>

\* Values of the "limit" query parameter: absent, not a number, negative,
\* and the one-digit numbers 0..MaxLimit.
LimitParams ==
  {<<>>, <<"a", "b", "c">>, <<"-", "1">>} \cup {<<DigitChar[n + 1]>> : n \in 0..MaxLimit}

\* Values of the "location" query parameter; "" is the absent parameter.
LocationParams == {""} \cup Locations

VARIABLES egg_prices, locations, nextId, clock, pc, request, fault, status, body

vars == <<egg_prices, locations, nextId, clock, pc, request, fault, status, body>>

\* ------------------------------------------------------- pure functions
RECURSIVE DigitsValue(_)
DigitsValue(ds) ==
  IF Len(ds) = 0 THEN 0
  ELSE 10 * DigitsValue(SubSeq(ds, 1, Len(ds) - 1)) + DigitVal[ds[Len(ds)]]

\* strconv.Atoi: an optional sign, then at least one decimal digit.
Atoi(s) ==
  LET signed == Len(s) > 0 /\ s[1] \in {"+", "-"}
      ds     == IF signed THEN Tail(s) ELSE s
      bad    == Len(ds) = 0 \/ \E i \in 1..Len(ds) : ds[i] \notin DOMAIN DigitVal
  IN IF bad THEN [err |-> TRUE, val |-> 0]
     ELSE [err |-> FALSE,
           val |-> IF signed /\ s[1] = "-" THEN 0 - DigitsValue(ds) ELSE DigitsValue(ds)]

\* The value the handler parses when the parameter is absent.
DefaultLimit == <<"3", "0">>

Min(a, b) == IF a < b THEN a ELSE b

Abs(n) == IF n < 0 THEN 0 - n ELSE n

RECURSIVE GCD(_, _)
GCD(a, b) == IF b = 0 THEN a ELSE GCD(b, a % b)

\* The quotient n / d (d # 0) as a fraction in lowest terms, den > 0.
Quot(n, d) ==
  LET g == GCD(Abs(n), Abs(d))
      s == IF d < 0 THEN 0 - 1 ELSE 1
  IN [num |-> s * (n \div g), den |-> s * (d \div g)]

Zero == [num |-> 0, den |-> 1]

\* ------------------------------------------------------------ the store
Rows == {egg_prices[i] : i \in DOMAIN egg_prices}

SortedByDateDesc(s) == \A i \in 1..(Len(s) - 1) : s[i].date >= s[i + 1].date

\* ORDER BY date DESC: every arrangement of S with no date out of order
\* (the order among equal dates is not fixed by the statement).
OrderByDateDesc(S) ==
  {s \in [1..Cardinality(S) -> S] :
     /\ \A i, j \in DOMAIN s : i # j => s[i] # s[j]
     /\ SortedByDateDesc(s)}

\* PricesWhere with the WHERE clause applied to the empty parameter too.
PricesWhereAlways(location) == {r \in Rows : r.location = location}

\* WHERE location = $1, present only when the parameter is not empty.
PricesWhere(location) ==
  IF location # "" THEN {r \in Rows : r.location = location} ELSE Rows

Limit(s, n) == SubSeq(s, 1, Min(n, Len(s)))

\* SelectPrices without the LIMIT clause.
SelectPricesNoLimit(location, limitInt) == OrderByDateDesc(PricesWhere(location))

\* The result sets the listing statement can produce.
SelectPrices(location, limitInt) ==
  {Limit(s, limitInt) : s \in OrderByDateDesc(PricesWhere(location))}

\* MaxDateRows ordered by id instead of date: the row inserted last.
LastInsertedRows(l) ==
  {r \in Rows : r.location = l /\ \A q \in Rows : q.location = l => q.id <= r.id}

\* SELECT DISTINCT ON (location) ... ORDER BY location, date DESC: for each
\* location one row of maximum date; which one among several of that date
\* is not fixed by the statement.
MaxDateRows(l) ==
  {r \in Rows : r.location = l /\ \A q \in Rows : q.location = l => q.date <= r.date}

StoredLocations == {r.location : r \in Rows}

LatestPrices == {lp \in [StoredLocations -> Rows] : \A l \in StoredLocations : lp[l] \in MaxDateRows(l)}

\* NationalPrice with a missing baseline read as zero.
NationalPriceOrZero(lp) ==
  IF "NATIONAL" \in StoredLocations THEN {lp["NATIONAL"].price_per_dozen} ELSE {0}

\* The subquery np: the NATIONAL row of latest_prices, if there is one.
NationalPrice(lp) == {lp[l].price_per_dozen : l \in StoredLocations \cap {"NATIONAL"}}

\* ComparedLocations without the WHERE clause.
ComparedLocationsAll == StoredLocations

\* WHERE lp.location != 'NATIONAL'
ComparedLocations == {l \in StoredLocations : l # "NATIONAL"}

\* ORDER BY lp.location
OrderByLocation(S) ==
  CHOOSE s \in [1..Cardinality(S) -> S] :
    \A i, j \in DOMAIN s : i < j => NameRank(s[i].location) < NameRank(s[j].location)

\* The result sets the comparison statement can produce: latest_prices
\* CROSS JOIN np, NATIONAL excluded, ordered by location.
ComparisonQuery ==
  {OrderByLocation({[location |-> l,
                     price_per_dozen |-> lp[l].price_per_dozen,
                     national_price |-> np] : l \in ComparedLocations, np \in NationalPrice(lp)})
     : lp \in LatestPrices}

\* SELECT id, name, type FROM locations ORDER BY name
LocationsQuery ==
  CHOOSE s \in [1..Cardinality(locations) -> locations] :
    \A i, j \in DOMAIN s : i < j => NameRank(s[i].name) < NameRank(s[j].name)

\* ------------------------------------------------------------- responses
StatusOK == 200
StatusBadRequest == 400
StatusInternalServerError == 500

NoFault == [kind |-> "none", at |-> 0]

QueryFault == [kind |-> "query", at |-> 0]

\* Failures of the store while a result of n rows is read: rows.Scan failing
\* on row i, or rows.Next ending the iteration early with an error before
\* row i (i = n + 1: instead of the normal end of the rows).
ReadFaults(n) ==
  {NoFault} \cup {[kind |-> "scan", at |-> i] : i \in 1..n}
            \cup {[kind |-> "next", at |-> i] : i \in 1..(n + 1)}

\* The row loop of a read handler over the rows as Scan decodes them: a
\* Scan error answers 500; when Next returns false the loop ends and what
\* was appended is encoded with 200.
ReadRows(scanned, f) ==
  IF f.kind = "scan" THEN [status |-> StatusInternalServerError, records |-> <<>>]
  ELSE [status |-> StatusOK,
        records |-> SubSeq(scanned, 1, IF f.kind = "next" THEN f.at - 1 ELSE Len(scanned))]

ScanPrice(r) ==
  [ID |-> r.id, Date |-> r.date, Location |-> r.location,
   PricePerDozen |-> r.price_per_dozen, Source |-> r.source, CreatedAt |-> r.created_at]

ScanLocation(r) == [ID |-> r.id, Name |-> r.name, Type |-> r.type]

Difference(currentPrice, nationalPrice) == currentPrice - nationalPrice

\* Percentage guarded against a zero divisor only.
PercentageNonZero(difference, nationalPrice) ==
  IF nationalPrice # 0 THEN Quot(difference * 100, nationalPrice) ELSE Zero

Percentage(difference, nationalPrice) ==
  IF nationalPrice > 0 THEN Quot(difference * 100, nationalPrice) ELSE Zero

ScanComparison(r) ==
  [Location |-> r.location, CurrentPrice |-> r.price_per_dozen,
   NationalPrice |-> r.national_price,
   Difference |-> Difference(r.price_per_dozen, r.national_price),
   Percentage |-> Percentage(Difference(r.price_per_dozen, r.national_price), r.national_price)]

\* ------------------------------------------------------------- requests
ZeroPrice ==
  [ID |-> 0, Date |-> 0, Location |-> "", PricePerDozen |-> 0, Source |-> "", CreatedAt |-> 0]

\* A request body that does not decode into an EggPrice.
Malformed == [ok |-> FALSE, price |-> ZeroPrice]

\* Request bodies that decode: id and created_at are fields of the struct,
\* so the body may carry them (0 stands for an absent field).
Payloads ==
  {[ok |-> TRUE,
    price |-> [ID |-> i, Date |-> d, Location |-> l, PricePerDozen |-> p,
               Source |-> s, CreatedAt |-> c]] :
     i \in {0, 1}, d \in Dates, l \in Locations, p \in Prices, s \in Sources, c \in {0, 1}}

NoRequest == [op |-> "none", location |-> "", limit |-> <<>>, payload |-> Malformed]

Req(op, location, limit, payload) ==
  [op |-> op, location |-> location, limit |-> limit, payload |-> payload]

Respond(req, f, st, b) ==
  /\ pc' = "responded"
  /\ request' = req
  /\ fault' = f
  /\ status' = st
  /\ body' = b

\* ------------------------------------------------------------ the tables
\* Column defaults of egg_prices: id from the table's sequence, created_at
\* from the server's clock.
GeneratedId == nextId

ServerTimestamp == clock

\* InsertRow as an upsert on (date, location).
InsertRowUpsert(price) ==
  LET new == [id |-> GeneratedId, date |-> price.Date, location |-> price.Location,
              price_per_dozen |-> price.PricePerDozen, source |-> price.Source,
              created_at |-> ServerTimestamp]
      old == {i \in DOMAIN egg_prices :
                egg_prices[i].date = price.Date /\ egg_prices[i].location = price.Location}
  IN IF old = {} THEN Append(egg_prices, new)
     ELSE Append(SelectSeq(egg_prices,
                           LAMBDA r : ~(r.date = price.Date /\ r.location = price.Location)),
                 new)

\* INSERT INTO egg_prices (date, location, price_per_dozen, source)
\* VALUES ($1, $2, $3, $4): the table after the statement.
InsertRow(price) ==
  Append(egg_prices,
         [id |-> GeneratedId, date |-> price.Date, location |-> price.Location,
          price_per_dozen |-> price.PricePerDozen, source |-> price.Source,
          created_at |-> ServerTimestamp])

\* The constraints of egg_prices on a new row, beyond the generated key:
\* none; two rows may carry the same date and location.
SatisfiesConstraints(price) == TRUE

LocationType(name) == IF name = "NATIONAL" THEN "national" ELSE "regional"

\* The names the locations table holds; prices may name other locations.
RegisteredNames == {"California", "NATIONAL"}

\* A locations table holding the names S.
Registry(S) == {[id |-> NameRank(n), name |-> n, type |-> LocationType(n)] : n \in S}

\* -------------------------------------------------------------- actions
Init ==
  /\ egg_prices = <<>>
  /\ locations = Registry(RegisteredNames)
  /\ nextId = 1
  /\ clock = 1
  /\ pc = "ready"
  /\ request = NoRequest
  /\ fault = NoFault
  /\ status = 0
  /\ body = <<>>

\* Failures of db.Query itself; the store rejects a negative LIMIT.
QueryFaults(limitInt) == IF limitInt < 0 THEN {QueryFault} ELSE {NoFault, QueryFault}

\* GET /api/prices
getPricesHandler ==
  /\ pc = "ready"
  /\ UNCHANGED <<egg_prices, locations, nextId, clock>>
  /\ \E location \in LocationParams, limit \in LimitParams :
       LET req == Req("prices", location, limit, Malformed)
           a   == Atoi(IF limit = <<>> THEN DefaultLimit ELSE limit)
       IN IF a.err
          THEN Respond(req, NoFault, StatusBadRequest, <<>>)
          ELSE \E qf \in QueryFaults(a.val) :
                 IF qf.kind = "query"
                 THEN Respond(req, qf, StatusInternalServerError, <<>>)
                 ELSE \E rows \in SelectPrices(location, a.val) :
                        \E rf \in ReadFaults(Len(rows)) :
                          LET out == ReadRows([i \in DOMAIN rows |-> ScanPrice(rows[i])], rf)
                          IN Respond(req, rf, out.status, out.records)

\* GET /api/locations
getLocationsHandler ==
  /\ pc = "ready"
  /\ UNCHANGED <<egg_prices, locations, nextId, clock>>
  /\ LET req == Req("locations", "", <<>>, Malformed)
     IN \E qf \in QueryFaults(0) :
          IF qf.kind = "query"
          THEN Respond(req, qf, StatusInternalServerError, <<>>)
          ELSE \E rf \in ReadFaults(Len(LocationsQuery)) :
                 LET out == ReadRows([i \in DOMAIN LocationsQuery |-> ScanLocation(LocationsQuery[i])], rf)
                 IN Respond(req, rf, out.status, out.records)

\* POST /api/prices (the router passes POST only, so the method check of
\* the handler never fails)
addPriceHandler ==
  /\ pc = "ready"
  /\ UNCHANGED locations
  /\ \E payload \in Payloads \cup {Malformed} :
       LET req == Req("add", "", <<>>, payload)
       IN IF ~payload.ok
          THEN /\ Respond(req, NoFault, StatusBadRequest, <<>>)
               /\ UNCHANGED <<egg_prices, nextId, clock>>
          ELSE \E qf \in QueryFaults(0) :
                 IF qf.kind = "query"
                 THEN /\ Respond(req, qf, StatusInternalServerError, <<>>)
                      /\ UNCHANGED <<egg_prices, nextId, clock>>
                 ELSE /\ Len(egg_prices) < MaxRows
                      /\ SatisfiesConstraints(payload.price)
                      /\ egg_prices' = InsertRow(payload.price)
                      /\ nextId' = nextId + 1
                      /\ clock' = clock + 1
                      /\ Respond(req, NoFault, StatusOK,
                                 <<[payload.price EXCEPT !.ID = GeneratedId]>>)

\* GET /api/comparison
getComparisonHandler ==
  /\ pc = "ready"
  /\ UNCHANGED <<egg_prices, locations, nextId, clock>>
  /\ LET req == Req("comparison", "", <<>>, Malformed)
     IN \E qf \in QueryFaults(0) :
          IF qf.kind = "query"
          THEN Respond(req, qf, StatusInternalServerError, <<>>)
          ELSE \E rows \in ComparisonQuery :
                 \E rf \in ReadFaults(Len(rows)) :
                   LET out == ReadRows([i \in DOMAIN rows |-> ScanComparison(rows[i])], rf)
                   IN Respond(req, rf, out.status, out.records)

\* The response is written; the server takes the next request.
Serve ==
  /\ pc = "responded"
  /\ pc' = "ready"
  /\ request' = NoRequest
  /\ fault' = NoFault
  /\ status' = 0
  /\ body' = <<>>
  /\ UNCHANGED <<egg_prices, locations, nextId, clock>>

Next ==
  \/ getPricesHandler
  \/ getLocationsHandler
  \/ addPriceHandler
  \/ getComparisonHandler
  \/ Serve

Spec == Init /\ [][Next]_vars

\* ---------------------------------------------------------------- claims
Responded(op) == pc = "responded" /\ request.op = op

\* The limit a listing request asks for.
RequestedLimit == Atoi(IF request.limit = <<>> THEN DefaultLimit ELSE request.limit)

\* The rows a listing request's filter matches.
Matching == {r \in Rows : request.location = "" \/ r.location = request.location}

MaxDateOf(l) == CHOOSE d \in Dates : (\E r \in Rows : r.location = l /\ r.date = d)
                                      /\ \A r \in Rows : r.location = l => r.date <= d

\* C1: a listing with a valid limit n (30 when none is given) returns at
\* most n records, each a stored row that passes the filter, in descending
\* date order; without a filter and without a store failure it returns
\* min(n, number of rows) records, whatever their locations.
C1_ListingLimitedAndSorted ==
  (Responded("prices") /\ ~RequestedLimit.err /\ RequestedLimit.val >= 0) =>
    /\ Len(body) <= RequestedLimit.val
    /\ \A i \in 1..(Len(body) - 1) : body[i].Date >= body[i + 1].Date
    /\ \A i \in DOMAIN body : \E r \in Matching : ScanPrice(r) = body[i]
    /\ (request.location = "" /\ fault = NoFault) =>
         Len(body) = Min(RequestedLimit.val, Len(egg_prices))

C1_Witness ==
  /\ Responded("prices")
  /\ request.location = ""
  /\ request.limit = <<"2">>
  /\ Len(egg_prices) = 3
  /\ Len(body) = 2
  /\ body[1].Date > body[2].Date
  /\ body[1].Location # body[2].Location

\* C2: every inserted row (each row of the store, known by its generated
\* id) occurs exactly once in a listing read without a store failure whose
\* filter is absent or is the row's location and whose limit is at least
\* the number of matching rows.
C2_InsertedRowListedOnce ==
  (/\ Responded("prices")
   /\ fault = NoFault
   /\ ~RequestedLimit.err
   /\ RequestedLimit.val >= Cardinality(Matching)) =>
    /\ status = StatusOK
    /\ \A r \in Matching : Cardinality({i \in DOMAIN body : body[i].ID = r.id}) = 1

C2_Witness ==
  /\ Responded("prices")
  /\ fault = NoFault
  /\ request.location = "Texas"
  /\ request.limit = <<"2">>
  /\ Cardinality(Matching) = 2
  /\ Len(egg_prices) = 3
  /\ Len(body) = 2

\* C3: with a NATIONAL observation stored, a comparison read without a
\* store failure holds exactly one record for each stored location other
\* than NATIONAL, none for any other location and none for NATIONAL, in
\* ascending order of location name.
C3_OneRecordPerLocation ==
  (Responded("comparison") /\ fault = NoFault /\ \E r \in Rows : r.location = "NATIONAL") =>
    /\ status = StatusOK
    /\ \A i \in DOMAIN body : body[i].Location \in Locations \ {"NATIONAL"}
    /\ \A l \in Locations \ {"NATIONAL"} :
         Cardinality({i \in DOMAIN body : body[i].Location = l})
           = IF \E r \in Rows : r.location = l THEN 1 ELSE 0
    /\ \A i, j \in DOMAIN body :
         i < j => NameRank(body[i].Location) < NameRank(body[j].Location)

C3_Witness ==
  /\ Responded("comparison")
  /\ fault = NoFault
  /\ Len(egg_prices) = 3
  /\ Len(body) = 2
  /\ body[1].Location = "California"
  /\ body[2].Location = "Texas"

\* C4: with no NATIONAL observation stored, a comparison during which the
\* store does not fail answers success with no comparison record.
C4_NoBaselineEmptyResult ==
  (Responded("comparison") /\ fault = NoFault /\ \A r \in Rows : r.location # "NATIONAL") =>
    /\ status = StatusOK
    /\ body = <<>>

C4_Witness ==
  /\ Responded("comparison")
  /\ fault = NoFault
  /\ \E r \in Rows : r.location = "California"
  /\ \E r \in Rows : r.location = "Texas"
  /\ \A r \in Rows : r.location # "NATIONAL"
  /\ status = StatusOK

\* C5: in every comparison record, current_price is the price of a row of
\* that location carrying the location's maximum date, and national_price
\* the price of a NATIONAL row carrying NATIONAL's maximum date.
C5_MostRecentByDate ==
  Responded("comparison") =>
    \A i \in DOMAIN body :
      /\ \E r \in Rows : /\ r.location = body[i].Location
                         /\ r.date = MaxDateOf(body[i].Location)
                         /\ r.price_per_dozen = body[i].CurrentPrice
      /\ \E r \in Rows : /\ r.location = "NATIONAL"
                         /\ r.date = MaxDateOf("NATIONAL")
                         /\ r.price_per_dozen = body[i].NationalPrice

\* A row of an older date and another price was inserted after the newest.
C5_Witness ==
  /\ Responded("comparison")
  /\ Len(body) = 1
  /\ \E r, q \in Rows : /\ r.location = body[1].Location
                        /\ q.location = body[1].Location
                        /\ q.id > r.id
                        /\ q.date < r.date
                        /\ q.price_per_dozen # r.price_per_dozen
                        /\ body[1].CurrentPrice = r.price_per_dozen

\* C6: in every comparison record difference = current_price -
\* national_price; percentage = difference / national_price * 100 when
\* national_price > 0 (250 against 200 cents: difference 50, percentage
\* 25) and zero otherwise; a baseline <= 0 is no error.
C6_DifferenceAndPercentage ==
  Responded("comparison") =>
    /\ fault = NoFault => status = StatusOK
    /\ \A i \in DOMAIN body :
         LET c == body[i]
         IN /\ c.Difference = c.CurrentPrice - c.NationalPrice
            /\ c.NationalPrice > 0 =>
                 /\ c.Percentage.den > 0
                 /\ c.Percentage.num * c.NationalPrice = c.Difference * 100 * c.Percentage.den
            /\ c.NationalPrice <= 0 => c.Percentage = Zero
            /\ (c.CurrentPrice = 250 /\ c.NationalPrice = 200) =>
                 (c.Difference = 50 /\ c.Percentage = [num |-> 25, den |-> 1])

C6_Witness ==
  /\ Responded("comparison")
  /\ Len(body) = 2
  /\ body[1].CurrentPrice = 250
  /\ body[1].NationalPrice = 200
  /\ body[1].Percentage = [num |-> 25, den |-> 1]
  /\ body[2].CurrentPrice = 0
  /\ body[2].Percentage = [num |-> 0 - 100, den |-> 1]

\* C7: a comparison is determined by the store content: every result the
\* statement can produce over the store of this run gives the records this
\* run returned.
C7_ComparisonDeterministic ==
  (Responded("comparison") /\ fault = NoFault) =>
    \A rows \in ComparisonQuery : [i \in DOMAIN rows |-> ScanComparison(rows[i])] = body

\* C8: every step keeps every stored row as it is and where it is; the
\* three read handlers leave the store as it was, and a successful
\* insertion adds exactly one row.
C8_AppendOnly ==
  [][/\ Len(egg_prices') >= Len(egg_prices)
     /\ \A i \in DOMAIN egg_prices : egg_prices'[i] = egg_prices[i]
     /\ (pc' = "responded" /\ request'.op \in {"prices", "locations", "comparison"}) =>
          egg_prices' = egg_prices
     /\ (pc' = "responded" /\ request'.op = "add" /\ status' = StatusOK) =>
          Len(egg_prices') = Len(egg_prices) + 1]_vars

\* An insertion for a (date, location) that is already stored.
C8_Witness ==
  /\ Responded("add")
  /\ status = StatusOK
  /\ Len(egg_prices) = 3
  /\ egg_prices[3].date = egg_prices[1].date
  /\ egg_prices[3].location = egg_prices[1].location
  /\ egg_prices[3].price_per_dozen # egg_prices[1].price_per_dozen

\* C9: a request fully succeeds or fully fails: an unparseable limit or
\* payload answers a client error, a store failure at any point an
\* internal error, and a failed request carries no records and leaves the
\* store as it was.
C9_AllOrNothing ==
  [][pc' = "responded" =>
       LET badLimit == request'.op = "prices"
                       /\ Atoi(IF request'.limit = <<>> THEN DefaultLimit
                               ELSE request'.limit).err
           badBody  == request'.op = "add" /\ ~request'.payload.ok
       IN /\ (badLimit \/ badBody) => status' = StatusBadRequest
          /\ fault' # NoFault => status' = StatusInternalServerError
          /\ (badLimit \/ badBody \/ fault' # NoFault \/ status' # StatusOK) =>
               (body' = <<>> /\ egg_prices' = egg_prices)]_vars

\* C10: a successful insertion returns the stored record: exactly one row
\* carries the returned id, and every returned field is that row's.
C10_ReturnsStoredRecord ==
  (Responded("add") /\ status = StatusOK) =>
    /\ Len(body) = 1
    /\ Cardinality({i \in DOMAIN egg_prices : egg_prices[i].id = body[1].ID}) = 1
    /\ \E r \in Rows : ScanPrice(r) = body[1]
====
